---------------------------- MODULE Spec2Model ----------------------------
(***************************************************************************)
(* Model of the Clause AI document analysis and scoring pipeline           *)
(* (plijtmaer/clause-ai): the legal-document tools of lib/tools            *)
(* (src/unnamed/part_003) and the POST handler of app/api/chat/route.ts.   *)
(*                                                                         *)
(* Numbers.  Category scores are JavaScript numbers with fractions         *)
(* (1.5 x 0.8, 1.5 x 1.1, ...).  A category score is kept here as an       *)
(* integer count of hundredths (4.95 is 495), and a weighted score as an   *)
(* integer count of 1/3000 points, the common denominator of the scorer's  *)
(* divisions by 10, by 15, by 2 and its factors 0.8, 1.5 and 2 applied to  *)
(* hundredths.  Arithmetic is exact; Math.round is floor(x + 1/2).         *)
(***************************************************************************)
EXTENDS Integers, Sequences, FiniteSets, TLC

VARIABLES
    scIn,       \* Document Scorer: the arguments of one execute() call
    scOut,      \* Document Scorer: the value execute() returned, or NoResult
    anIn,       \* analyzer functions: the function called and its arguments
    anOut,      \* analyzer functions: the value returned, or NoResult
    pc,         \* POST /api/chat: the step the handler is about to run
    message,    \* POST /api/chat: the message of the request body
    user,       \* POST /api/chat: TRUE iff supabase.auth.getUser() gave a user
    documentContent,  \* POST /api/chat: let documentContent
    docType,    \* POST /api/chat: let documentType
    analysisResult,   \* POST /api/chat: let analysisResult (NoResult is null)
    scoreResult,      \* POST /api/chat: let scoreResult (NoResult is null)
    docId,      \* POST /api/chat: TRUE iff let docId is not null
    storage,    \* POST /api/chat: how far step 4 got
    response,   \* POST /api/chat: the Response returned, or NoResponse
    progress,   \* POST /api/chat: the steps sendProgress has logged, in order
    timedOutAt, \* POST /api/chat: the step during which the 90 second timer
                \* aborted the controller, or "none"
    route,      \* chunk storage: the route that runs it ("chat", "upload"), or "none"
    stPc,       \* chunk storage: where the storing code is
    chunks,     \* chunk storage: chunks.length
    batchStart, \* chunk storage: the loop variable i
    inFlight,   \* chunk storage: the chunks whose embed() call is pending
    embedded,   \* chunk storage: the chunks whose embed() call returned
    failed,     \* chunk storage: the chunks whose embed() call threw
    documentChunks,   \* chunk storage: const documentChunks
    rows        \* chunk storage: the rows of the document in document_chunks

scorerVars == <<scIn, scOut>>
analyzerVars == <<anIn, anOut>>
pipelineVars ==
    <<pc, message, user, documentContent, docType, analysisResult, scoreResult,
      docId, storage, response, progress, timedOutAt>>
storageVars ==
    <<route, stPc, chunks, batchStart, inFlight, embedded, failed, documentChunks, rows>>
vars == <<scorerVars, analyzerVars, pipelineVars, storageVars>>

NoCall == [called |-> FALSE]
NoResult == [success |-> FALSE, pending |-> TRUE]
NoMessage == [received |-> FALSE]
NoContent == [empty |-> TRUE, sentences |-> <<>>]
NoResponse == [sent |-> FALSE]

\* No tool has been called on its own.
ToolsIdle ==
    /\ scIn = NoCall
    /\ scOut = NoResult
    /\ anIn = NoCall
    /\ anOut = NoResult

\* No request has arrived at the handler.
PipelineIdle ==
    /\ pc = "idle"
    /\ message = NoMessage
    /\ user = FALSE
    /\ documentContent = NoContent
    /\ docType = "terms"
    /\ analysisResult = NoResult
    /\ scoreResult = NoResult
    /\ docId = FALSE
    /\ storage = "none"
    /\ response = NoResponse
    /\ progress = <<>>
    /\ timedOutAt = "none"

\* No document is being stored chunk by chunk.
StorageIdle ==
    /\ route = "none"
    /\ stPc = "idle"
    /\ chunks = 0
    /\ batchStart = 0
    /\ inFlight = {}
    /\ embedded = {}
    /\ failed = {}
    /\ documentChunks = <<>>
    /\ rows = <<>>

Min(a, b) == IF a <= b THEN a ELSE b
Max(a, b) == IF a >= b THEN a ELSE b

\* Math.round on a count of 1/3000: the nearest integer, halves rounded up.
MathRound(x3000) == (x3000 + 1500) \div 3000

(***************************************************************************)
(* Bounds of the model.                                                    *)
(***************************************************************************)
\* A synthetic category score far outside [0,10], in hundredths.
ExtremeScore == 100000
\* Longest riskFactors list handed to the scorer.
MaxRiskFactors == 20
\* Most pieces of a document handed to findRelevantSections.
MaxSentences == 6
\* Most pieces of a document handed to the whole analyzer.
MaxShortSentences == 2
\* Most distinct risk phrases in a document handed to assessRiskFactors.
MaxRiskTerms == 6
\* Longest details list handed to calculateScore.
MaxDetails == 8

(***************************************************************************)
(* Document types: the zod enum of the tools, and one value outside it     *)
(* that reaches the default branch of getScoreWeights.                     *)
(***************************************************************************)
EnumDocumentTypes == {"terms", "privacy", "legal", "nda", "contract", "eula", "cookies"}
DocumentTypes == EnumDocumentTypes \cup {"unknown"}

BaseCategories == {"dataCollection", "userRights", "dataSharing", "security"}
OptionalCategories == {"contractTerms", "confidentialityTerms"}

\* Mutant of getScoreWeights: the default row carries security 25 (the
\* privacy row's dataCollection) and no longer sums to 100.
getScoreWeights_defaultRowOff(documentType) ==
    CASE documentType = "privacy" ->
            [dataCollection |-> 25, userRights |-> 35, dataSharing |-> 25, security |-> 15]
      [] documentType = "terms" ->
            [dataCollection |-> 20, userRights |-> 30, dataSharing |-> 30, security |-> 20]
      [] documentType = "nda" ->
            [dataCollection |-> 15, userRights |-> 20, dataSharing |-> 35, security |-> 30]
      [] documentType = "contract" ->
            [dataCollection |-> 10, userRights |-> 25, dataSharing |-> 30, security |-> 35]
      [] documentType = "eula" ->
            [dataCollection |-> 20, userRights |-> 25, dataSharing |-> 25, security |-> 30]
      [] documentType = "cookies" ->
            [dataCollection |-> 35, userRights |-> 30, dataSharing |-> 25, security |-> 10]
      [] OTHER ->
            [dataCollection |-> 25, userRights |-> 30, dataSharing |-> 25, security |-> 25]

(***************************************************************************)
(* getScoreWeights                                                         *)
(***************************************************************************)
getScoreWeights(documentType) ==
    CASE documentType = "privacy" ->
            [dataCollection |-> 25, userRights |-> 35, dataSharing |-> 25, security |-> 15]
      [] documentType = "terms" ->
            [dataCollection |-> 20, userRights |-> 30, dataSharing |-> 30, security |-> 20]
      [] documentType = "nda" ->
            [dataCollection |-> 15, userRights |-> 20, dataSharing |-> 35, security |-> 30]
      [] documentType = "contract" ->
            [dataCollection |-> 10, userRights |-> 25, dataSharing |-> 30, security |-> 35]
      [] documentType = "eula" ->
            [dataCollection |-> 20, userRights |-> 25, dataSharing |-> 25, security |-> 30]
      [] documentType = "cookies" ->
            [dataCollection |-> 35, userRights |-> 30, dataSharing |-> 25, security |-> 10]
      [] OTHER ->
            [dataCollection |-> 25, userRights |-> 30, dataSharing |-> 25, security |-> 20]

\* Mutant of calculateScore: the user_rights boost is not capped at 10.
calculateScore_uncappedBoost(detailsLength, category) ==
    IF detailsLength = 0 THEN 0
    ELSE LET baseScore == Min(detailsLength * 150, 1000)
         IN  CASE category = "data_collection" -> Min((baseScore * 8) \div 10, 800)
               [] category = "user_rights"     -> (baseScore * 12) \div 10
               [] category = "data_sharing"    -> Max(baseScore, 300)
               [] category = "security"        -> Min((baseScore * 11) \div 10, 1000)
               [] category = "contract_terms"  -> Min(baseScore, 1000)
               [] category = "confidentiality" -> Min((baseScore * 11) \div 10, 1000)
               [] OTHER                        -> baseScore

(***************************************************************************)
(* calculateScore: details.length -> category score, in hundredths.        *)
(* baseScore = min(length x 1.5, 10) is min(150 x length, 1000).           *)
(***************************************************************************)
calculateScore(detailsLength, category) ==
    IF detailsLength = 0 THEN 0
    ELSE LET baseScore == Min(detailsLength * 150, 1000)
         IN  CASE category = "data_collection" -> Min((baseScore * 8) \div 10, 800)
               [] category = "user_rights"     -> Min((baseScore * 12) \div 10, 1000)
               [] category = "data_sharing"    -> Max(baseScore, 300)
               [] category = "security"        -> Min((baseScore * 11) \div 10, 1000)
               [] category = "contract_terms"  -> Min(baseScore, 1000)
               [] category = "confidentiality" -> Min((baseScore * 11) \div 10, 1000)
               [] OTHER                        -> baseScore


(***************************************************************************)
(* privacyPolicyScorerTool.execute, piece by piece.  A category finding is *)
(* [found, details, score]: details is details.length (the scorer never    *)
(* reads the sentences) and score is in hundredths.  analysisResults is a  *)
(* function whose domain holds the four base categories and whichever of   *)
(* contractTerms / confidentialityTerms the caller supplied.  The weighted *)
(* scores below are counts of 1/3000 points.                               *)
(***************************************************************************)
dataCollectionScore(dataCollection, weights, documentType) ==
    IF dataCollection.found
    THEN Min(3000 * weights.dataCollection,
             Max(5 * 3000, 3 * dataCollection.score * weights.dataCollection))
    ELSE IF documentType = "privacy" THEN 5 * 3000 ELSE 1500 * weights.dataCollection

userRightsScore(userRights, weights, documentType) ==
    IF userRights.found
    THEN Min(3000 * weights.userRights,
             Max(5 * 3000, 3 * userRights.score * weights.userRights))
    ELSE IF documentType = "privacy" THEN 5 * 3000 ELSE 1500 * weights.userRights

\* Mutant of dataSharingScore: no sharing found earns the full weight.
dataSharingScore_fullWhenAbsent(dataSharing, weights) ==
    IF dataSharing.found
    THEN Max(5 * 3000, 3000 * weights.dataSharing - 2 * dataSharing.score * weights.dataSharing)
    ELSE 3000 * weights.dataSharing

\* inverted: weights.dataSharing - score * weights.dataSharing / 15, floor 5
dataSharingScore(dataSharing, weights) ==
    IF dataSharing.found
    THEN Max(5 * 3000, 3000 * weights.dataSharing - 2 * dataSharing.score * weights.dataSharing)
    ELSE 2400 * weights.dataSharing

securityScore(security, weights) ==
    IF security.found
    THEN Min(3000 * weights.security, Max(5 * 3000, 3 * security.score * weights.security))
    ELSE 1500 * weights.security

contractScore(analysisResults, documentType) ==
    IF "contractTerms" \in DOMAIN analysisResults /\ documentType = "contract"
    THEN IF analysisResults["contractTerms"].found
         THEN Min(15 * 3000, Max(5 * 3000, 45 * analysisResults["contractTerms"].score))
         ELSE 8 * 3000
    ELSE 0

confidentialityScore(analysisResults, documentType) ==
    IF "confidentialityTerms" \in DOMAIN analysisResults /\ documentType = "nda"
    THEN IF analysisResults["confidentialityTerms"].found
         THEN Min(20 * 3000, Max(5 * 3000, 60 * analysisResults["confidentialityTerms"].score))
         ELSE 10 * 3000
    ELSE 0

\* Mutant of riskPenaltyOf: the cap of 15 is missing.
riskPenaltyOf_uncapped(riskFactors) == Len(riskFactors) * 3

\* const riskPenalty = Math.min(15, riskFactors.length * 3)
riskPenaltyOf(riskFactors) == Min(15, Len(riskFactors) * 3)

\* Mutant of overallScoreOf: the clamp to [0,100] is missing.
overallScoreOf_unclamped(sum3000, riskPenalty) == MathRound(sum3000 - 3000 * riskPenalty)

\* overallScore = Math.max(0, Math.min(100, Math.round(sum - riskPenalty)))
overallScoreOf(sum3000, riskPenalty) ==
    Max(0, Min(100, MathRound(sum3000 - 3000 * riskPenalty)))

\* Mutant of ratingOf: the lower bounds are exclusive.
ratingOf_exclusive(overallScore) ==
    IF overallScore > 80 THEN "Excellent"
    ELSE IF overallScore > 65 THEN "Good"
    ELSE IF overallScore > 50 THEN "Fair"
    ELSE IF overallScore > 35 THEN "Poor"
    ELSE "Very Poor"

ratingOf(overallScore) ==
    IF overallScore >= 80 THEN "Excellent"
    ELSE IF overallScore >= 65 THEN "Good"
    ELSE IF overallScore >= 50 THEN "Fair"
    ELSE IF overallScore >= 35 THEN "Poor"
    ELSE "Very Poor"

colorOf(overallScore) ==
    IF overallScore >= 80 THEN "green"
    ELSE IF overallScore >= 65 THEN "blue"
    ELSE IF overallScore >= 50 THEN "yellow"
    ELSE IF overallScore >= 35 THEN "orange"
    ELSE "red"

\* Mutant of breakdownEntry: Math.floor in place of Math.round.
breakdownEntry_floor(score3000, maxScore) ==
    [score |-> score3000 \div 3000, maxScore |-> maxScore]

\* One breakdown entry: the rounded weighted score and its maxScore.
breakdownEntry(score3000, maxScore) ==
    [score |-> MathRound(score3000), maxScore |-> maxScore]

(***************************************************************************)
(* generateRecommendations.  A recommendation string is named by a short   *)
(* tag; the thresholds 7 and 5 on category scores are 700 and 500          *)
(* hundredths.                                                             *)
(***************************************************************************)
SeqIf(cond, x) == IF cond THEN <<x>> ELSE <<>>

\* the recommendations pushed, before the final slice
pushedRecommendations(analysisResults, documentType, riskFactors, overallScore) ==
    LET dataCollection == analysisResults["dataCollection"]
        userRights     == analysisResults["userRights"]
        dataSharing    == analysisResults["dataSharing"]
        security       == analysisResults["security"]
    IN      SeqIf(dataCollection.score < 700, "Improve transparency about what data is collected")
         \o SeqIf(userRights.score < 700, "Clearly outline user rights")
         \o SeqIf(dataSharing.score > 500, "Reduce third-party data sharing")
         \o SeqIf(security.score < 700, "Strengthen security measures")
         \o SeqIf(Len(riskFactors) > 0, "Review and address identified risk factors")
         \o SeqIf(documentType = "privacy" /\ overallScore < 60,
                  "Consider implementing stronger privacy controls (GDPR/CCPA)")
         \o SeqIf(documentType = "privacy" /\ ~dataCollection.found,
                  "Provide clear information about data collection practices")
         \o SeqIf(documentType = "terms" /\ overallScore < 50,
                  "Make terms more user-friendly and transparent")
         \o SeqIf(documentType = "terms" /\ ~userRights.found,
                  "Include clear information about user rights and dispute resolution")
         \o SeqIf(documentType = "nda" /\ overallScore < 70,
                  "Consider more balanced confidentiality terms")
         \o SeqIf(documentType = "nda",
                  "Ensure confidentiality scope is clearly defined and reasonable")
         \o (IF overallScore < 40
             THEN <<"Major improvements needed">>
             ELSE IF overallScore < 60
             THEN <<"Several areas need improvement">>
             ELSE IF overallScore < 80
             THEN <<"Good foundation with room for improvement">>
             ELSE <<>>)

\* Mutant of limitRecommendations: the list is returned whole.
limitRecommendations_unsliced(recommendations) == recommendations

\* recommendations.slice(0, 6)
limitRecommendations(recommendations) ==
    SubSeq(recommendations, 1, Min(6, Len(recommendations)))

\* Mutant of generateRecommendations: the last six are kept (slice(-6)).
generateRecommendations_lastSix(analysisResults, documentType, riskFactors, overallScore) ==
    LET pushed == pushedRecommendations(analysisResults, documentType, riskFactors, overallScore)
    IN  SubSeq(pushed, Max(1, Len(pushed) - 5), Len(pushed))

generateRecommendations(analysisResults, documentType, riskFactors, overallScore) ==
    limitRecommendations(
        pushedRecommendations(analysisResults, documentType, riskFactors, overallScore))

(***************************************************************************)
(* privacyPolicyScorerTool.execute: the value returned on the success path.*)
(***************************************************************************)
scorerBreakdown(dc, ur, ds, sec, ct, cf, weights) ==
    LET present == BaseCategories
                   \cup (IF ct > 0 THEN {"contractTerms"} ELSE {})
                   \cup (IF cf > 0 THEN {"confidentialityTerms"} ELSE {})
    IN  [k \in present |->
            CASE k = "dataCollection" -> breakdownEntry(dc, weights.dataCollection)
              [] k = "userRights"     -> breakdownEntry(ur, weights.userRights)
              [] k = "dataSharing"    -> breakdownEntry(ds, weights.dataSharing)
              [] k = "security"       -> breakdownEntry(sec, weights.security)
              [] k = "contractTerms"  -> breakdownEntry(ct, 15)
              [] OTHER                -> breakdownEntry(cf, 20)]

scorerExecute(analysisResults, documentType, riskFactors) ==
    LET weights == getScoreWeights(documentType)
        dc  == dataCollectionScore(analysisResults["dataCollection"], weights, documentType)
        ur  == userRightsScore(analysisResults["userRights"], weights, documentType)
        ds  == dataSharingScore(analysisResults["dataSharing"], weights)
        sec == securityScore(analysisResults["security"], weights)
        ct  == contractScore(analysisResults, documentType)
        cf  == confidentialityScore(analysisResults, documentType)
        riskPenalty  == riskPenaltyOf(riskFactors)
        overallScore == overallScoreOf(dc + ur + ds + sec + ct + cf, riskPenalty)
    IN  [success         |-> TRUE,
         pending         |-> FALSE,
         documentType    |-> documentType,
         overallScore    |-> overallScore,
         rating          |-> ratingOf(overallScore),
         color           |-> colorOf(overallScore),
         breakdown       |-> scorerBreakdown(dc, ur, ds, sec, ct, cf, weights),
         riskFactors     |-> riskFactors,
         riskPenalty     |-> riskPenalty,
         recommendations |-> generateRecommendations(analysisResults, documentType,
                                                     riskFactors, overallScore)]

(***************************************************************************)
(* Text.  A document is the sequence of the pieces content.split(/[.!?]+/) *)
(* yields: the text between runs of sentence terminators, with whatever    *)
(* whitespace surrounds it.  The pieces are drawn from a fixed vocabulary  *)
(* of literal strings, and the JavaScript string operations the tools      *)
(* apply are tabulated for exactly those literals: trim(), toLowerCase(),  *)
(* length, match(new RegExp(keyword, 'gi')) and includes(term).  No risk   *)
(* term or keyword contains a terminator, so none straddles two pieces.    *)
(***************************************************************************)
dataCollectionKeywords ==
    <<
      "personal information", "personal data",
      "personally identifiable information", "pii", "collect", "gather",
      "obtain", "process", "store", "record", "email address", "ip address",
      "location data", "cookies", "tracking", "analytics", "usage data",
      "device information", "payment information", "biometric data",
      "health information", "demographic information"
    >>

userRightsKeywords ==
    <<
      "delete", "remove", "access", "modify", "correct", "update", "opt-out",
      "opt out", "unsubscribe", "withdraw consent", "right to",
      "data protection", "privacy rights", "user control",
      "request information", "portability", "erasure", "gdpr", "ccpa",
      "california privacy rights"
    >>

sharingKeywords ==
    <<
      "third party", "third-party", "share", "disclose", "transfer", "sell",
      "partner", "affiliate", "vendor", "service provider", "advertiser",
      "marketing", "business transfer", "merger", "government",
      "law enforcement"
    >>

securityKeywords ==
    <<
      "security", "encrypt", "encryption", "secure", "protect", "safeguard",
      "ssl", "tls", "https", "data breach", "unauthorized access",
      "firewall", "authentication", "access control", "cybersecurity",
      "backup"
    >>

contractKeywords ==
    <<
      "agreement", "contract", "obligations", "duties", "responsibilities",
      "breach", "default", "termination", "renewal", "payment terms",
      "liability", "indemnification", "warranties", "governing law"
    >>

ndaKeywords ==
    <<
      "confidential", "confidentiality", "non-disclosure", "proprietary",
      "trade secret", "disclosure", "receiving party", "disclosing party",
      "confidential information", "non-compete", "non-solicitation"
    >>

highRiskTerms ==
    <<
      "sell your data", "share with partners", "no warranty",
      "may terminate at any time", "without notice",
      "change terms without notice", "track across websites",
      "location tracking"
    >>

mediumRiskTerms ==
    <<
      "advertising partners", "marketing purposes", "business purposes",
      "merger or acquisition", "government request",
      "automated decision making"
    >>

\* Sentences of ordinary documents (with the whitespace split leaves on them).
CoreSentences ==
    {
      " We collect your email address", " we collect usage data",
      " we gather usage data ",
      " We collect and may sell your data to third parties"
    }

ExtraSentences ==
    {
      "  We sell your data  ",
      " This agreement imposes perpetual confidentiality",
      " The weather was pleasant all week",
      " Our privacy policy covers cookie tracking"
    }

\* Sentences that occur only in documents whose type is detected.
SniffSentences ==
    {
      " This non-disclosure notice mentions cookie tracking",
      " The end user license governs this software"
    }

\* String.prototype.trim
Trim(s) ==
    CASE s = " We collect your email address" -> "We collect your email address"
      [] s = " we collect usage data" -> "we collect usage data"
      [] s = " we gather usage data " -> "we gather usage data"
      [] s = " We collect and may sell your data to third parties" -> "We collect and may sell your data to third parties"
      [] s = "  We sell your data  " -> "We sell your data"
      [] s = " This agreement imposes perpetual confidentiality" -> "This agreement imposes perpetual confidentiality"
      [] s = " The weather was pleasant all week" -> "The weather was pleasant all week"
      [] s = " Our privacy policy covers cookie tracking" -> "Our privacy policy covers cookie tracking"
      [] OTHER -> s

\* String.prototype.toLowerCase
ToLowerCase(s) ==
    CASE s = " We collect your email address" -> " we collect your email address"
      [] s = " We collect and may sell your data to third parties" -> " we collect and may sell your data to third parties"
      [] s = "  We sell your data  " -> "  we sell your data  "
      [] s = " This agreement imposes perpetual confidentiality" -> " this agreement imposes perpetual confidentiality"
      [] s = " The weather was pleasant all week" -> " the weather was pleasant all week"
      [] s = " Our privacy policy covers cookie tracking" -> " our privacy policy covers cookie tracking"
      [] s = " This non-disclosure notice mentions cookie tracking" -> " this non-disclosure notice mentions cookie tracking"
      [] s = " The end user license governs this software" -> " the end user license governs this software"
      [] OTHER -> s

\* String.prototype.length of every literal of the model
StringLengthTable ==
    (" We collect your email address" :> 30)
    @@ ("We collect your email address" :> 29)
    @@ (" we collect usage data" :> 22)
    @@ ("we collect usage data" :> 21)
    @@ (" we gather usage data " :> 22)
    @@ ("we gather usage data" :> 20)
    @@ (" We collect and may sell your data to third parties" :> 51)
    @@ ("We collect and may sell your data to third parties" :> 50)
    @@ ("  We sell your data  " :> 21)
    @@ (" Our privacy policy covers cookie tracking" :> 42)
    @@ ("Our privacy policy covers cookie tracking" :> 41)
    @@ ("We sell your data" :> 17)
    @@ (" This agreement imposes perpetual confidentiality" :> 49)
    @@ ("This agreement imposes perpetual confidentiality" :> 48)
    @@ (" The weather was pleasant all week" :> 34)
    @@ ("The weather was pleasant all week" :> 33)
    @@ ("sell your data" :> 14)
    @@ ("share with partners" :> 19)
    @@ ("no warranty" :> 11)
    @@ ("may terminate at any time" :> 25)
    @@ ("without notice" :> 14)
    @@ ("change terms without notice" :> 27)
    @@ ("track across websites" :> 21)
    @@ ("location tracking" :> 17)
    @@ ("advertising partners" :> 20)
    @@ ("marketing purposes" :> 18)
    @@ ("business purposes" :> 17)
    @@ ("merger or acquisition" :> 21)
    @@ ("government request" :> 18)
    @@ ("automated decision making" :> 25)
    @@ ("personal information" :> 20)
    @@ ("personal data" :> 13)
    @@ ("personally identifiable information" :> 35)
    @@ ("pii" :> 3)
    @@ ("collect" :> 7)
    @@ ("gather" :> 6)
    @@ ("obtain" :> 6)
    @@ ("process" :> 7)
    @@ ("store" :> 5)
    @@ ("record" :> 6)
    @@ ("email address" :> 13)
    @@ ("ip address" :> 10)
    @@ ("location data" :> 13)
    @@ ("cookies" :> 7)
    @@ ("tracking" :> 8)
    @@ ("analytics" :> 9)
    @@ ("usage data" :> 10)
    @@ ("device information" :> 18)
    @@ ("payment information" :> 19)
    @@ ("biometric data" :> 14)
    @@ ("health information" :> 18)
    @@ ("demographic information" :> 23)
    @@ ("delete" :> 6)
    @@ ("remove" :> 6)
    @@ ("access" :> 6)
    @@ ("modify" :> 6)
    @@ ("correct" :> 7)
    @@ ("update" :> 6)
    @@ ("opt-out" :> 7)
    @@ ("opt out" :> 7)
    @@ ("unsubscribe" :> 11)
    @@ ("withdraw consent" :> 16)
    @@ ("right to" :> 8)
    @@ ("data protection" :> 15)
    @@ ("privacy rights" :> 14)
    @@ ("user control" :> 12)
    @@ ("request information" :> 19)
    @@ ("portability" :> 11)
    @@ ("erasure" :> 7)
    @@ ("gdpr" :> 4)
    @@ ("ccpa" :> 4)
    @@ ("california privacy rights" :> 25)
    @@ ("third party" :> 11)
    @@ ("third-party" :> 11)
    @@ ("share" :> 5)
    @@ ("disclose" :> 8)
    @@ ("transfer" :> 8)
    @@ ("sell" :> 4)
    @@ ("partner" :> 7)
    @@ ("affiliate" :> 9)
    @@ ("vendor" :> 6)
    @@ ("service provider" :> 16)
    @@ ("advertiser" :> 10)
    @@ ("marketing" :> 9)
    @@ ("business transfer" :> 17)
    @@ ("merger" :> 6)
    @@ ("government" :> 10)
    @@ ("law enforcement" :> 15)
    @@ ("security" :> 8)
    @@ ("encrypt" :> 7)
    @@ ("encryption" :> 10)
    @@ ("secure" :> 6)
    @@ ("protect" :> 7)
    @@ ("safeguard" :> 9)
    @@ ("ssl" :> 3)
    @@ ("tls" :> 3)
    @@ ("https" :> 5)
    @@ ("data breach" :> 11)
    @@ ("unauthorized access" :> 19)
    @@ ("firewall" :> 8)
    @@ ("authentication" :> 14)
    @@ ("access control" :> 14)
    @@ ("cybersecurity" :> 13)
    @@ ("backup" :> 6)
    @@ ("agreement" :> 9)
    @@ ("contract" :> 8)
    @@ ("obligations" :> 11)
    @@ ("duties" :> 6)
    @@ ("responsibilities" :> 16)
    @@ ("breach" :> 6)
    @@ ("default" :> 7)
    @@ ("termination" :> 11)
    @@ ("renewal" :> 7)
    @@ ("payment terms" :> 13)
    @@ ("liability" :> 9)
    @@ ("indemnification" :> 15)
    @@ ("warranties" :> 10)
    @@ ("governing law" :> 13)
    @@ ("confidential" :> 12)
    @@ ("confidentiality" :> 15)
    @@ ("non-disclosure" :> 14)
    @@ ("proprietary" :> 11)
    @@ ("trade secret" :> 12)
    @@ ("disclosure" :> 10)
    @@ ("receiving party" :> 15)
    @@ ("disclosing party" :> 16)
    @@ ("confidential information" :> 24)
    @@ ("non-compete" :> 11)
    @@ ("non-solicitation" :> 16)

StringLength(s) == StringLengthTable[s]

\* lowerSentence.match(new RegExp(keyword, 'gi')): for each lowercased piece,
\* the keywords that occur in it with their number of (non-overlapping)
\* occurrences; a keyword not listed does not occur (match returns null).
RegexMatchTable ==
    (" we collect your email address" :> {<<"collect", 1>>, <<"email address", 1>>})
    @@ (" we collect usage data" :> {<<"collect", 1>>, <<"usage data", 1>>})
    @@ (" we gather usage data " :> {<<"gather", 1>>, <<"usage data", 1>>})
    @@ (" we collect and may sell your data to third parties" :> {<<"collect", 1>>, <<"sell", 1>>})
    @@ ("  we sell your data  " :> {<<"sell", 1>>})
    @@ (" this agreement imposes perpetual confidentiality" :> {<<"agreement", 1>>, <<"confidential", 1>>, <<"confidentiality", 1>>})
    @@ (" the weather was pleasant all week" :> {})
    @@ (" our privacy policy covers cookie tracking" :> {<<"tracking", 1>>})
    @@ ("sell your data" :> {<<"sell", 1>>})
    @@ ("share with partners" :> {<<"share", 1>>, <<"partner", 1>>})
    @@ ("no warranty" :> {})
    @@ ("may terminate at any time" :> {})
    @@ ("without notice" :> {})
    @@ ("change terms without notice" :> {})
    @@ ("track across websites" :> {})
    @@ ("location tracking" :> {<<"tracking", 1>>})
    @@ ("advertising partners" :> {<<"partner", 1>>})
    @@ ("marketing purposes" :> {<<"marketing", 1>>})
    @@ ("business purposes" :> {})
    @@ ("merger or acquisition" :> {<<"merger", 1>>})
    @@ ("government request" :> {<<"government", 1>>})
    @@ ("automated decision making" :> {})

MatchCount(lowerSentence, keyword) ==
    LET hits == {m \in RegexMatchTable[lowerSentence] : m[1] = keyword}
    IN  IF hits = {} THEN 0 ELSE (CHOOSE m \in hits : TRUE)[2]

\* String.prototype.includes: the risk terms each lowercased piece contains as
\* a substring, and the words 'perpetual' and 'indefinite' where they occur.
IncludesTable ==
    (" we collect your email address" :> {})
    @@ (" we collect usage data" :> {})
    @@ (" we gather usage data " :> {})
    @@ (" we collect and may sell your data to third parties" :> {"sell your data"})
    @@ ("  we sell your data  " :> {"sell your data"})
    @@ (" this agreement imposes perpetual confidentiality" :> {"perpetual"})
    @@ (" the weather was pleasant all week" :> {})
    @@ (" our privacy policy covers cookie tracking" :> {})
    @@ ("sell your data" :> {"sell your data"})
    @@ ("share with partners" :> {"share with partners"})
    @@ ("no warranty" :> {"no warranty"})
    @@ ("may terminate at any time" :> {"may terminate at any time"})
    @@ ("without notice" :> {"without notice"})
    @@ ("change terms without notice" :> {"without notice", "change terms without notice"})
    @@ ("track across websites" :> {"track across websites"})
    @@ ("location tracking" :> {"location tracking"})
    @@ ("advertising partners" :> {"advertising partners"})
    @@ ("marketing purposes" :> {"marketing purposes"})
    @@ ("business purposes" :> {"business purposes"})
    @@ ("merger or acquisition" :> {"merger or acquisition"})
    @@ ("government request" :> {"government request"})
    @@ ("automated decision making" :> {"automated decision making"})

\* String.prototype.includes for document-type sniffing: the marker phrases of
\* urlContentFetcherTool and directTextAnalyzerTool each lowercased sentence
\* contains as a substring.
MarkerTable ==
    (" we collect your email address" :> {})
    @@ (" we collect usage data" :> {})
    @@ (" we gather usage data " :> {})
    @@ (" we collect and may sell your data to third parties" :> {})
    @@ ("  we sell your data  " :> {})
    @@ (" this agreement imposes perpetual confidentiality" :> {"confidential", "agreement"})
    @@ (" the weather was pleasant all week" :> {})
    @@ (" our privacy policy covers cookie tracking" :> {"privacy", "cookie", "privacy policy", "tracking"})
    @@ (" this non-disclosure notice mentions cookie tracking" :> {"non-disclosure", "cookie", "tracking"})
    @@ (" the end user license governs this software" :> {"end user license"})

(***************************************************************************)
(* findRelevantSections                                                    *)
(***************************************************************************)
\* Mutant of keepsSentence: the length filter reads the untrimmed piece and
\* lets anything longer than 10 characters through.
keepsSentence_rawOver10(s) == StringLength(s) > 10

\* the filter of content.split(/[.!?]+/).filter(s => s.trim().length > 20)
keepsSentence(s) == StringLength(Trim(s)) > 20

\* weight: keyword.length > 5 ? 2 : 1
keywordWeight(keyword) == IF StringLength(keyword) > 5 THEN 2 ELSE 1

\* score += matches.length * weight, over the keyword patterns from index i on
RECURSIVE relevanceScore(_, _, _)
relevanceScore(lowerSentence, keywords, i) ==
    IF i > Len(keywords) THEN 0
    ELSE MatchCount(lowerSentence, keywords[i]) * keywordWeight(keywords[i])
         + relevanceScore(lowerSentence, keywords, i + 1)

\* the loop over the sentences: relevant.push({ sentence: sentence.trim(), score })
\* for every sentence whose score is positive, in document order
RECURSIVE relevantItems(_, _, _)
relevantItems(sentences, keywords, i) ==
    IF i > Len(sentences) THEN <<>>
    ELSE LET score == relevanceScore(ToLowerCase(sentences[i]), keywords, 1)
         IN  (IF score > 0
              THEN <<[sentence |-> Trim(sentences[i]), score |-> score]>>
              ELSE <<>>)
             \o relevantItems(sentences, keywords, i + 1)

\* Mutant of insertByScore: an item goes in front of the items of equal score.
insertByScore_beforeEqual(sorted, item) ==
    LET k == Cardinality({j \in 1..Len(sorted) : sorted[j].score > item.score})
    IN  SubSeq(sorted, 1, k) \o <<item>> \o SubSeq(sorted, k + 1, Len(sorted))

\* Array.prototype.sort((a, b) => b.score - a.score): a stable sort, so an item
\* goes behind every item already placed whose score is not smaller.
insertByScore(sorted, item) ==
    LET k == Cardinality({j \in 1..Len(sorted) : sorted[j].score >= item.score})
    IN  SubSeq(sorted, 1, k) \o <<item>> \o SubSeq(sorted, k + 1, Len(sorted))

RECURSIVE sortByScore(_, _)
sortByScore(items, n) ==
    IF n = 0 THEN <<>> ELSE insertByScore(sortByScore(items, n - 1), items[n])

\* Mutant of topSections: slice(0, 8), the limit of the earlier version.
topSections_slice8(sorted) == [i \in 1..Min(8, Len(sorted)) |-> sorted[i].sentence]

\* .slice(0, 5).map(item => item.sentence)
topSections(sorted) == [i \in 1..Min(5, Len(sorted)) |-> sorted[i].sentence]

findRelevantSections(content, keywords) ==
    LET sentences == SelectSeq(content, keepsSentence)
        relevant  == relevantItems(sentences, keywords, 1)
    IN  topSections(sortByScore(relevant, Len(relevant)))

(***************************************************************************)
(* assessRiskFactors.  A finding `High Risk: ${term}` is the record        *)
(* [severity |-> "High", term |-> term].                                   *)
(***************************************************************************)
\* lowerContent.includes(term)
contentIncludes(content, term) ==
    \E i \in 1..Len(content) : term \in IncludesTable[ToLowerCase(content[i])]

\* Mutant of riskLimitReached: the break is taken only past 5 findings.
riskLimitReached_past5(riskFactors) == Len(riskFactors) > 5

\* if (riskFactors.length >= 5) break
riskLimitReached(riskFactors) == Len(riskFactors) >= 5

\* one for-loop over a term list, from index i on, pushing onto riskFactors
RECURSIVE scanRiskTerms(_, _, _, _, _)
scanRiskTerms(content, terms, severity, i, riskFactors) ==
    IF i > Len(terms) THEN riskFactors
    ELSE IF contentIncludes(content, terms[i])
    THEN LET pushed == Append(riskFactors, [severity |-> severity, term |-> terms[i]])
         IN  IF riskLimitReached(pushed) THEN pushed
             ELSE scanRiskTerms(content, terms, severity, i + 1, pushed)
    ELSE scanRiskTerms(content, terms, severity, i + 1, riskFactors)

\* documentType is a parameter the function never reads.
assessRiskFactors(content, documentType) ==
    LET high == scanRiskTerms(content, highRiskTerms, "High", 1, <<>>)
    IN  IF Len(high) < 5
        THEN scanRiskTerms(content, mediumRiskTerms, "Medium", 1, high)
        ELSE high

(***************************************************************************)
(* termsAnalyzerTool.execute: the value returned on the success path.      *)
(* wordCount, readingTimeMinutes, summary and keySections only travel to   *)
(* the summary prompt and are left out.                                    *)
(***************************************************************************)
categoryFinding(details, category) ==
    [found   |-> Len(details) > 0,
     details |-> details,
     score   |-> calculateScore(Len(details), category)]

\* the analysis object: the four base categories, and contractTerms /
\* confidentialityTerms spread in only when non-empty
analysisOf(dataCollection, userRights, dataSharing, security, contractTerms, confidentialityTerms) ==
    LET present == BaseCategories
                   \cup (IF Len(contractTerms) > 0 THEN {"contractTerms"} ELSE {})
                   \cup (IF Len(confidentialityTerms) > 0
                         THEN {"confidentialityTerms"} ELSE {})
    IN  [k \in present |->
            CASE k = "dataCollection" -> categoryFinding(dataCollection, "data_collection")
              [] k = "userRights"     -> categoryFinding(userRights, "user_rights")
              [] k = "dataSharing"    -> categoryFinding(dataSharing, "data_sharing")
              [] k = "security"       -> categoryFinding(security, "security")
              [] k = "contractTerms"  -> categoryFinding(contractTerms, "contract_terms")
              [] OTHER -> categoryFinding(confidentialityTerms, "confidentiality")]

analyzerExecute(content, documentType) ==
    [success      |-> TRUE,
     pending      |-> FALSE,
     documentType |-> documentType,
     analysis     |->
        analysisOf(findRelevantSections(content, dataCollectionKeywords),
                   findRelevantSections(content, userRightsKeywords),
                   findRelevantSections(content, sharingKeywords),
                   findRelevantSections(content, securityKeywords),
                   IF documentType \in {"contract", "eula"}
                   THEN findRelevantSections(content, contractKeywords) ELSE <<>>,
                   IF documentType = "nda"
                   THEN findRelevantSections(content, ndaKeywords) ELSE <<>>),
     riskFactors  |-> assessRiskFactors(content, documentType)]

(***************************************************************************)
(* Inputs of the Document Scorer.                                          *)
(***************************************************************************)
\* n matched sentences (the scorer reads only how many there are)
detailsOfLength(n) == [i \in 1..n |-> "matched sentence"]

\* A riskFactors list of a given length (the scorer reads only its length).
riskList(n) == [i \in 1..n |-> [severity |-> "High", term |-> "synthetic"]]

\* Analyzer-shaped calls: every combination of details lengths 0..5 and every
\* document type of the enum; riskFactors is omitted (the default []), as the
\* chat route calls the scorer, or carries the 5 findings of a full Risk
\* Assessor result.
AnalyzerShapedInputs ==
    { [called          |-> TRUE,
       analysisResults |->
          analysisOf(detailsOfLength(dc), detailsOfLength(ur), detailsOfLength(ds),
                     detailsOfLength(sec),
                     detailsOfLength(IF t \in {"contract", "eula"} THEN o ELSE 0),
                     detailsOfLength(IF t = "nda" THEN o ELSE 0)),
       documentType    |-> t,
       riskFactors     |-> riskList(r)] :
        dc \in 0..5, ur \in 0..5, ds \in 0..5, sec \in 0..5, o \in 0..5,
        t \in EnumDocumentTypes, r \in {0, 5} }

\* Synthetic calls: the zod schema takes any boolean and any number, so the
\* categories are given an extreme score of either sign with either flag; the
\* optional categories are absent or present; any riskFactors length.
SyntheticFindings ==
    { [found |-> f, details |-> <<>>, score |-> s] :
        f \in BOOLEAN, s \in {0 - ExtremeScore, ExtremeScore} }

SyntheticInputs ==
    { [called          |-> TRUE,
       analysisResults |->
          [k \in BaseCategories \cup opt |->
              IF k \in {"dataCollection", "userRights"} THEN a
              ELSE IF k = "dataSharing" THEN b ELSE c],
       documentType |-> t,
       riskFactors  |-> riskList(r)] :
        a \in SyntheticFindings, b \in SyntheticFindings, c \in SyntheticFindings,
        opt \in SUBSET OptionalCategories,
        t \in DocumentTypes, r \in 0..MaxRiskFactors }

(***************************************************************************)
(* SpecScorer: one call of privacyPolicyScorerTool.execute.                *)
(***************************************************************************)
InitScorer == ToolsIdle /\ PipelineIdle /\ StorageIdle

ScorerCall(in) ==
    /\ scIn' = in
    /\ scOut' = scorerExecute(in.analysisResults, in.documentType, in.riskFactors)
    /\ UNCHANGED <<analyzerVars, pipelineVars, storageVars>>

\* The tool is called once per request; the guard precedes the choice of input.
ScoreAnalysis ==
    /\ scIn = NoCall
    /\ \E in \in AnalyzerShapedInputs : ScorerCall(in)

ScoreSynthetic ==
    /\ scIn = NoCall
    /\ \E in \in SyntheticInputs : ScorerCall(in)

NextScorer == ScoreAnalysis \/ ScoreSynthetic

SpecScorer == InitScorer /\ [][NextScorer]_vars

(***************************************************************************)
(* SpecAnalyzer: one call of a function of the analyzer: the whole         *)
(* termsAnalyzerTool.execute, or findRelevantSections, assessRiskFactors   *)
(* or calculateScore on its own.                                           *)
(***************************************************************************)
RECURSIVE SeqsUpTo(_, _)
SeqsUpTo(S, n) ==
    IF n = 0 THEN {<<>>}
    ELSE LET shorter == SeqsUpTo(S, n - 1)
         IN  shorter \cup {Append(q, x) : q \in shorter, x \in S}

\* Documents for findRelevantSections: up to MaxSentences pieces.
LongDocuments == SeqsUpTo(CoreSentences, MaxSentences)

\* Documents for the whole analyzer: up to MaxShortSentences pieces.
ShortDocuments == SeqsUpTo(CoreSentences \cup ExtraSentences, MaxShortSentences)

\* Documents for assessRiskFactors: each holds up to MaxRiskTerms of the risk
\* phrases, every phrase a piece of its own, in the order of the term lists.
allRiskTerms == highRiskTerms \o mediumRiskTerms

RiskDocuments ==
    { SelectSeq(allRiskTerms, LAMBDA t : t \in R) :
        R \in { Q \in SUBSET {allRiskTerms[i] : i \in 1..Len(allRiskTerms)} :
                   Cardinality(Q) <= MaxRiskTerms } }

ScoreCategories ==
    {"data_collection", "user_rights", "data_sharing", "security",
     "contract_terms", "confidentiality", "other"}

InitAnalyzer == ToolsIdle /\ PipelineIdle /\ StorageIdle

FindSections ==
    /\ anIn = NoCall
    /\ \E content \in LongDocuments :
       \E keywords \in {dataCollectionKeywords, sharingKeywords} :
          /\ anIn' = [called |-> TRUE, op |-> "findRelevantSections",
                      content |-> content, keywords |-> keywords]
          /\ anOut' = findRelevantSections(content, keywords)
    /\ UNCHANGED <<scorerVars, pipelineVars, storageVars>>

AssessRisk ==
    /\ anIn = NoCall
    /\ \E content \in RiskDocuments :
       \E documentType \in {"terms", "nda"} :
          /\ anIn' = [called |-> TRUE, op |-> "assessRiskFactors",
                      content |-> content, documentType |-> documentType]
          /\ anOut' = assessRiskFactors(content, documentType)
    /\ UNCHANGED <<scorerVars, pipelineVars, storageVars>>

Analyze ==
    /\ anIn = NoCall
    /\ \E content \in ShortDocuments :
       \E documentType \in EnumDocumentTypes :
          /\ anIn' = [called |-> TRUE, op |-> "termsAnalyzer",
                      content |-> content, documentType |-> documentType]
          /\ anOut' = analyzerExecute(content, documentType)
    /\ UNCHANGED <<scorerVars, pipelineVars, storageVars>>

CalculateScore ==
    /\ anIn = NoCall
    /\ \E n \in 0..MaxDetails :
       \E category \in ScoreCategories :
          /\ anIn' = [called |-> TRUE, op |-> "calculateScore",
                      details |-> detailsOfLength(n), category |-> category]
          /\ anOut' = calculateScore(n, category)
    /\ UNCHANGED <<scorerVars, pipelineVars, storageVars>>

NextAnalyzer == FindSections \/ AssessRisk \/ Analyze \/ CalculateScore

SpecAnalyzer == InitAnalyzer /\ [][NextAnalyzer]_vars

(***************************************************************************)
(* Content extraction: urlContentFetcherTool and directTextAnalyzerTool.   *)
(*                                                                         *)
(* A message is the text of the request body.  Of a pasted text the model  *)
(* keeps the sentences drawn from the vocabulary above, the number of its  *)
(* words and the number of its ends (0, 1 or 2) that carry whitespace; the *)
(* rest of the text is filler that holds no keyword, no risk term and no   *)
(* marker phrase, and starts and ends the text, so that every sentence of  *)
(* interest lies between two terminators.                                  *)
(***************************************************************************)
\* isLongText: message.split(/\s+/).length > 100
LongTextWords == 100
\* directTextAnalyzerTool: wordCount > 3000 truncates the content
TruncateAbove == 3000

UrlMessage ==
    [received |-> TRUE, startsWithHttp |-> TRUE, words |-> 1, padding |-> 0,
     sentences |-> <<>>]

\* Pasted texts of filler only, around the isLongText threshold.
FillerMessages ==
    { [received |-> TRUE, startsWithHttp |-> FALSE, words |-> w, padding |-> p,
       sentences |-> <<>>] :
        w \in {LongTextWords - 1, LongTextWords}, p \in 0..2 }

\* Pasted documents, below and above the truncation threshold.
DocumentMessages ==
    { [received |-> TRUE, startsWithHttp |-> FALSE, words |-> w, padding |-> 0,
       sentences |-> d] :
        w \in {LongTextWords + 1, TruncateAbove + 1}, d \in ShortDocuments }

Messages == {UrlMessage} \cup FillerMessages \cup DocumentMessages

\* message.startsWith('http://') || message.startsWith('https://')
isUrl(m) == m.startsWithHttp

\* message.split(/\s+/).length: the words, and one empty string for each end
\* of the message that carries whitespace
splitLength(m) == m.words + m.padding

isLongText(m) == splitLength(m) > LongTextWords

\* content.trim().split(/\s+/).filter(word => word.length > 0).length
wordCountOf(m) == m.words

\* lowerContent.includes(marker); no marker phrase holds a terminator
contentMentions(content, marker) ==
    \E i \in 1..Len(content) : marker \in MarkerTable[ToLowerCase(content[i])]

\* urlContentFetcherTool.execute: auto-detection of the document type
sniffFetched(content, documentType) ==
    IF documentType = "terms" /\ contentMentions(content, "privacy") THEN "privacy"
    ELSE IF documentType = "terms" /\ contentMentions(content, "cookie") THEN "cookies"
    ELSE IF documentType = "terms" /\ contentMentions(content, "non-disclosure") THEN "nda"
    ELSE IF documentType = "terms" /\ contentMentions(content, "end user license") THEN "eula"
    ELSE documentType

\* directTextAnalyzerTool.execute: auto-detection of the document type
sniffPasted(content, documentType) ==
    IF documentType # "terms" THEN documentType
    ELSE IF \/ contentMentions(content, "privacy policy")
            \/ contentMentions(content, "personal data")
            \/ contentMentions(content, "data collection") THEN "privacy"
    ELSE IF contentMentions(content, "cookie") /\ contentMentions(content, "tracking")
         THEN "cookies"
    ELSE IF \/ contentMentions(content, "non-disclosure")
            \/ contentMentions(content, "confidential") THEN "nda"
    ELSE IF \/ contentMentions(content, "end user license")
            \/ contentMentions(content, "software license") THEN "eula"
    ELSE IF \/ contentMentions(content, "contract")
            \/ contentMentions(content, "agreement") THEN "contract"
    ELSE documentType

\* directTextAnalyzerTool.execute: the values it can return for a message.
\* Above 3000 words the content is cut to the first 70% of its pieces; how many
\* of the sentences of interest lie in that part depends on where they stand
\* among the filler, so any prefix of them can remain.  (The '. ' that joins
\* the kept pieces puts one more space in front of each; every later reader
\* trims the piece or searches inside it, and the space is not kept here.)
directTextResults(m, documentType) ==
    LET kept == IF wordCountOf(m) > TruncateAbove
                THEN 0..Len(m.sentences) ELSE {Len(m.sentences)}
    IN  { [success      |-> TRUE,
           documentType |-> sniffPasted(m.sentences, documentType),
           content      |-> [empty |-> FALSE, sentences |-> SubSeq(m.sentences, 1, k)],
           error        |-> ""] : k \in kept }

\* Sentences a fetched page can hold: the clean-up replaces every run of
\* whitespace by one space, so no piece has two spaces in a row.
FetchedSentences == (CoreSentences \cup ExtraSentences) \ {"  We sell your data  "}

FetchedDocuments == SeqsUpTo(FetchedSentences, MaxShortSentences)

\* error.message of what urlContentFetcherTool catches: a response that is
\* not ok, the abort of the 15 second timer, a failure of the network.
FetchErrors ==
    {"Failed to fetch content: 404 Not Found", "This operation was aborted", "fetch failed"}

\* urlContentFetcherTool.execute: the values it can return, over the pages the
\* URL may serve (a page with text, a page without any) and the failures.
urlFetchResults(documentType) ==
    { [success      |-> TRUE,
       documentType |-> sniffFetched(d, documentType),
       content      |-> [empty |-> FALSE, sentences |-> d],
       error        |-> ""] : d \in FetchedDocuments }
    \cup { [success |-> TRUE, documentType |-> documentType,
            content |-> NoContent, error |-> ""] }
    \cup { [success |-> FALSE, documentType |-> documentType,
            content |-> NoContent, error |-> e] : e \in FetchErrors }

(***************************************************************************)
(* POST /api/chat: the error response.                                     *)
(***************************************************************************)
InvalidInputMessage ==
    "Please provide a valid URL or paste the document text (minimum 100 words)"

\* Errors generateText can throw: the abort of the 90 second timer, and
\* failures of the model provider.
SummaryErrors ==
    { [name |-> "AbortError", message |-> "This operation was aborted"],
      [name |-> "Error", message |-> "rate limit exceeded"],
      [name |-> "Error", message |-> "Rate limit reached for requests"],
      [name |-> "Error", message |-> "Internal server error"] }

\* error.message.includes(needle), for 'fetch' and 'rate limit'
ErrorIncludesTable ==
    (InvalidInputMessage :> {})
    @@ ("Failed to fetch content: 404 Not Found" :> {"fetch"})
    @@ ("This operation was aborted" :> {})
    @@ ("fetch failed" :> {"fetch"})
    @@ ("rate limit exceeded" :> {"rate limit"})
    @@ ("Rate limit reached for requests" :> {})
    @@ ("Internal server error" :> {})

errorIncludes(error, needle) == needle \in ErrorIncludesTable[error.message]

\* the outer catch of POST
errorResponse(error) ==
    LET status ==
            IF error.name = "AbortError" THEN 408
            ELSE IF errorIncludes(error, "fetch") THEN 400
            ELSE IF errorIncludes(error, "rate limit") THEN 429
            ELSE 500
        errorMessage ==
            IF error.name = "AbortError"
            THEN "Request timed out. Please try again with a shorter document."
            ELSE IF errorIncludes(error, "fetch")
            THEN "Unable to fetch the document. Please check the URL and try again."
            ELSE IF errorIncludes(error, "rate limit")
            THEN "Rate limit exceeded. Please wait a moment and try again."
            ELSE error.message
    IN  [sent         |-> TRUE,
         status       |-> status,
         error        |-> errorMessage,
         details      |-> error.message,
         progressStep |-> 0]

\* Mutant of Throw: the handler goes on to the summary instead of answering.
Throw_resumes(error) ==
    /\ pc' = "summarize"
    /\ response' = response

\* A throw inside the handler: control passes to the outer catch.
Throw(error) ==
    /\ pc' = "done"
    /\ response' = errorResponse(error)

\* sendProgress: one line logged per call
sendProgress(log, step, status) == Append(log, [step |-> step, status |-> status])

(***************************************************************************)
(* Spec: one request through POST /api/chat, a step per await.  pc names   *)
(* the step whose call is in flight.                                       *)
(***************************************************************************)
Init == ToolsIdle /\ PipelineIdle /\ StorageIdle

\* request.json() and supabase.auth.getUser()
ReceiveRequest ==
    /\ pc = "idle"
    /\ \E m \in Messages, u \in BOOLEAN :
          /\ message' = m
          /\ user' = u
    /\ pc' = "extract"
    /\ UNCHANGED <<documentContent, docType, analysisResult, scoreResult,
                   docId, storage, response, progress, timedOutAt,
                   scorerVars, analyzerVars, storageVars>>

\* The callback of setTimeout(() => controller.abort(), 90000).  It can run
\* only while the handler waits for an external call: the URL fetch, the
\* storage calls, the summary.  Nothing ever clears the timer before the
\* success response.
RequestTimeout ==
    /\ timedOutAt = "none"
    /\ \/ pc = "extract" /\ isUrl(message)
       \/ pc = "store" /\ user
       \/ pc = "summarize"
    /\ timedOutAt' = pc
    /\ UNCHANGED <<pc, message, user, documentContent, docType, analysisResult,
                   scoreResult, docId, storage, response, progress,
                   scorerVars, analyzerVars, storageVars>>

\* STEP 1, isUrl.  The tool is given no abort signal of the request.
ExtractFromUrl ==
    /\ pc = "extract"
    /\ isUrl(message)
    /\ \E urlResult \in urlFetchResults("terms") :
          IF urlResult.success
          THEN /\ documentContent' = urlResult.content
               /\ docType' = urlResult.documentType
               /\ pc' = "analyze"
               /\ progress' = sendProgress(sendProgress(progress, 1, "in_progress"),
                                           1, "completed")
               /\ UNCHANGED response
          ELSE /\ Throw([name |-> "Error", message |-> urlResult.error])
               /\ progress' = sendProgress(sendProgress(progress, 1, "in_progress"),
                                           1, "error")
               /\ UNCHANGED <<documentContent, docType>>
    /\ UNCHANGED <<message, user, analysisResult, scoreResult, docId, storage,
                   timedOutAt, scorerVars, analyzerVars, storageVars>>

\* STEP 1, isLongText
ExtractFromText ==
    /\ pc = "extract"
    /\ ~isUrl(message)
    /\ isLongText(message)
    /\ \E textResult \in directTextResults(message, "terms") :
          /\ documentContent' = textResult.content
          /\ docType' = textResult.documentType
    /\ pc' = "analyze"
    /\ progress' = sendProgress(sendProgress(progress, 1, "in_progress"), 1, "completed")
    /\ UNCHANGED <<message, user, analysisResult, scoreResult, docId, storage,
                   response, timedOutAt, scorerVars, analyzerVars, storageVars>>

\* STEP 1, neither a URL nor a long text
RejectMessage ==
    /\ pc = "extract"
    /\ ~isUrl(message)
    /\ ~isLongText(message)
    /\ Throw([name |-> "Error", message |-> InvalidInputMessage])
    /\ progress' = sendProgress(sendProgress(progress, 1, "in_progress"), 1, "error")
    /\ UNCHANGED <<message, user, documentContent, docType, analysisResult,
                   scoreResult, docId, storage, timedOutAt, scorerVars, analyzerVars, storageVars>>

\* STEP 2: termsAnalyzerTool.execute on the extracted content
AnalyzeDocument ==
    /\ pc = "analyze"
    /\ analysisResult' = analyzerExecute(documentContent.sentences, docType)
    /\ pc' = "score"
    /\ progress' = sendProgress(sendProgress(progress, 2, "in_progress"), 2, "completed")
    /\ UNCHANGED <<message, user, documentContent, docType, scoreResult, docId,
                   storage, response, timedOutAt, scorerVars, analyzerVars, storageVars>>

\* STEP 3: privacyPolicyScorerTool.execute({analysisResults, documentType});
\* the call passes no riskFactors, and the parameter defaults to []
ScoreDocument ==
    /\ pc = "score"
    /\ scoreResult' = scorerExecute(analysisResult.analysis, docType, <<>>)
    /\ pc' = "store"
    /\ progress' = sendProgress(sendProgress(progress, 3, "in_progress"), 3, "completed")
    /\ UNCHANGED <<message, user, documentContent, docType, analysisResult, docId,
                   storage, response, timedOutAt, scorerVars, analyzerVars, storageVars>>

\* STEP 4 with a user: split, embed, insert.  docId is set as soon as there is
\* a chunk; a failure of the splitter or of an embedding is caught, and an
\* insert error only logged.
StorageOutcomes(c) ==
    IF c.empty THEN {"noChunks", "chunkingFailed"}
    ELSE {"chunkingFailed", "embeddingFailed", "insertError", "stored"}

\* Mutant of afterStorage: a failure of step 4 ends the request.
afterStorage_rethrows(outcome) ==
    IF outcome \in {"chunkingFailed", "embeddingFailed", "insertError"}
    THEN "done" ELSE "summarize"

\* Where the handler goes after step 4: its catch block rethrows nothing.
afterStorage(outcome) == "summarize"

StoreDocument ==
    /\ pc = "store"
    /\ user
    /\ \E outcome \in StorageOutcomes(documentContent) :
          /\ storage' = outcome
          /\ docId' = (outcome \notin {"noChunks", "chunkingFailed"})
          /\ pc' = afterStorage(outcome)
    /\ progress' = sendProgress(sendProgress(progress, 4, "in_progress"), 4, "completed")
    /\ UNCHANGED <<message, user, documentContent, docType, analysisResult,
                   scoreResult, response, timedOutAt, scorerVars, analyzerVars, storageVars>>

\* STEP 4 without a user
SkipStorage ==
    /\ pc = "store"
    /\ ~user
    /\ storage' = "skipped"
    /\ pc' = "summarize"
    /\ progress' = sendProgress(progress, 4, "completed")
    /\ UNCHANGED <<message, user, documentContent, docType, analysisResult,
                   scoreResult, docId, response, timedOutAt, scorerVars, analyzerVars, storageVars>>

\* STEP 5: generateText returns, and the success response is sent
GenerateSummary ==
    /\ pc = "summarize"
    /\ timedOutAt = "none"
    /\ response' = [sent          |-> TRUE,
                    status        |-> 200,
                    summary       |-> "summaryResult.text",
                    toolResults   |-> [termsAnalyzer |-> analysisResult,
                                       privacyPolicyScorer |-> scoreResult],
                    progressStep  |-> 5,
                    docId         |-> docId,
                    storedMessage |-> docId]
    /\ pc' = "done"
    /\ progress' = sendProgress(sendProgress(progress, 5, "in_progress"), 5, "completed")
    /\ UNCHANGED <<message, user, documentContent, docType, analysisResult,
                   scoreResult, docId, storage, timedOutAt, scorerVars, analyzerVars, storageVars>>

\* STEP 5: generateText throws: the AbortError of the controller's signal once
\* the timer has fired, an error of the provider otherwise
SummaryFails ==
    /\ pc = "summarize"
    /\ \E error \in SummaryErrors :
          /\ (error.name = "AbortError") = (timedOutAt # "none")
          /\ Throw(error)
    /\ progress' = sendProgress(sendProgress(progress, 5, "in_progress"), 5, "error")
    /\ UNCHANGED <<message, user, documentContent, docType, analysisResult,
                   scoreResult, docId, storage, timedOutAt, scorerVars, analyzerVars, storageVars>>

Next ==
    \/ ReceiveRequest
    \/ RequestTimeout
    \/ ExtractFromUrl
    \/ ExtractFromText
    \/ RejectMessage
    \/ AnalyzeDocument
    \/ ScoreDocument
    \/ StoreDocument
    \/ SkipStorage
    \/ GenerateSummary
    \/ SummaryFails

Spec == Init /\ [][Next]_vars

(***************************************************************************)
(* Claims about the Document Scorer (checked under SpecScorer).            *)
(***************************************************************************)
Scored == scOut.success

\* The total recomputed from an emitted breakdown: the sum of the entries'
\* scores minus riskPenalty, clamped to [0,100].
BreakdownSum(breakdown) ==
    breakdown["dataCollection"].score + breakdown["userRights"].score
    + breakdown["dataSharing"].score + breakdown["security"].score
    + (IF "contractTerms" \in DOMAIN breakdown
       THEN breakdown["contractTerms"].score ELSE 0)
    + (IF "confidentialityTerms" \in DOMAIN breakdown
       THEN breakdown["confidentialityTerms"].score ELSE 0)

RecomputedTotal(out) == Max(0, Min(100, BreakdownSum(out.breakdown) - out.riskPenalty))

RatingRank(rating) ==
    CASE rating = "Excellent" -> 4
      [] rating = "Good"      -> 3
      [] rating = "Fair"      -> 2
      [] rating = "Poor"      -> 1
      [] OTHER                -> 0

\* C1: for every input the Document Scorer accepts, the returned overallScore
\* is an integer in [0,100].
C1_OverallScoreInRange == Scored => scOut.overallScore \in 0..100

\* C1 witness: a synthetic call whose component sum exceeds 100 (a found
\* dataSharing finding with a negative score) came back clamped to 100.
C1_Witness ==
    /\ Scored
    /\ scIn.analysisResults["dataSharing"].found
    /\ scIn.analysisResults["dataSharing"].score < 0
    /\ BreakdownSum(scOut.breakdown) - scOut.riskPenalty > 100
    /\ scOut.overallScore = 100

\* C3: for every riskFactors list of length n in 0..20 the returned
\* riskPenalty is min(15, 3n): 3n below five findings, 15 from five on.
C3_RiskPenalty ==
    Scored =>
        LET n == Len(scIn.riskFactors)
        IN  /\ scOut.riskPenalty = (IF n >= 5 THEN 15 ELSE 3 * n)
            /\ scOut.riskPenalty \in 0..15

\* C3 witness: a call with the longest list was scored with the capped penalty.
C3_Witness ==
    /\ Scored
    /\ Len(scIn.riskFactors) = MaxRiskFactors
    /\ scOut.riskPenalty = 15

\* C4: for every documentType, unknown ones included, the four weights the
\* weight table returns (emitted as the breakdown's maxScore) sum to 100.
C4_WeightsSumTo100 ==
    Scored =>
        /\ scOut.breakdown["dataCollection"].maxScore + scOut.breakdown["userRights"].maxScore
           + scOut.breakdown["dataSharing"].maxScore + scOut.breakdown["security"].maxScore = 100
        /\ \A t \in DocumentTypes :
              LET w == getScoreWeights(t)
              IN  w.dataCollection + w.userRights + w.dataSharing + w.security = 100

\* C4 witness: a document of a type outside the enum was scored with the
\* default weight set.
C4_Witness ==
    /\ Scored
    /\ scOut.documentType = "unknown"
    /\ scOut.breakdown["userRights"].maxScore = 30

\* C8 as stated: the rating recomputed from the emitted breakdown (entries
\* summed, riskPenalty subtracted, clamped, thresholds 80/65/50/35) is the
\* rating the scorer emitted.
C8_RoundTripRating == Scored => ratingOf(RecomputedTotal(scOut)) = scOut.rating

\* C8 amended: the total recomputed from the emitted breakdown is within 2
\* points of the emitted overallScore, so the recomputed rating is the emitted
\* rating or a neighbouring band.
C8_RoundTripWithin2 ==
    Scored =>
        LET d == RecomputedTotal(scOut) - scOut.overallScore
            r == RatingRank(ratingOf(RecomputedTotal(scOut))) - RatingRank(scOut.rating)
        IN  /\ d \in (0 - 2)..2
            /\ r \in (0 - 1)..1

\* C8 witness: a scored analyzer-shaped call whose recomputed total is 2 points
\* off the emitted overallScore and lands in another rating band.
C8_Witness ==
    /\ Scored
    /\ scIn.analysisResults["dataSharing"].score >= 0
    /\ RecomputedTotal(scOut) - scOut.overallScore \in {0 - 2, 2}
    /\ ratingOf(RecomputedTotal(scOut)) # scOut.rating

\* C9 as stated: every breakdown entry has score <= maxScore, for any category
\* scores and found flags the scorer accepts.
C9_ScoreWithinMax ==
    Scored => \A k \in DOMAIN scOut.breakdown :
                 scOut.breakdown[k].score <= scOut.breakdown[k].maxScore


(***************************************************************************)
(* Claims about the analyzer functions (checked under SpecAnalyzer).       *)
(***************************************************************************)
Analyzed == anIn.called /\ anIn.op = "termsAnalyzer"
FoundSections == anIn.called /\ anIn.op = "findRelevantSections"
AssessedRisk == anIn.called /\ anIn.op = "assessRiskFactors"
CalculatedScore == anIn.called /\ anIn.op = "calculateScore"

\* The sentences a call returned: the result of findRelevantSections, or the
\* details of every category of an analysis.
ReturnedSectionLists ==
    IF FoundSections THEN {anOut}
    ELSE IF Analyzed THEN {anOut.analysis[k].details : k \in DOMAIN anOut.analysis}
    ELSE {}

\* The risk findings a call returned, with the content they were found in.
ReturnedRiskFactors ==
    IF AssessedRisk THEN anOut ELSE IF Analyzed THEN anOut.riskFactors ELSE <<>>

\* The matching terms of a list, in list order, as findings of a severity.
MatchingFindings(content, terms, severity) ==
    LET matching == SelectSeq(terms, LAMBDA t : contentIncludes(content, t))
    IN  [i \in 1..Len(matching) |-> [severity |-> severity, term |-> matching[i]]]

\* C5 as stated: for documentType 'nda', content containing 'perpetual' or
\* 'indefinite' makes the Risk Assessor return a High finding for the
\* perpetual/indefinite confidentiality period, and a sentence longer than 20
\* characters containing 'confidentiality' makes confidentialityTerms.found true.
C5_NdaPerpetualFinding ==
    (Analyzed /\ anIn.documentType = "nda") =>
        /\ (contentIncludes(anIn.content, "perpetual")
               \/ contentIncludes(anIn.content, "indefinite"))
           => \E i \in 1..Len(anOut.riskFactors) :
                 /\ anOut.riskFactors[i].severity = "High"
                 /\ anOut.riskFactors[i].term
                        = "Perpetual or indefinite confidentiality period"
        /\ (\E i \in 1..Len(anIn.content) :
               /\ StringLength(Trim(anIn.content[i])) > 20
               /\ MatchCount(ToLowerCase(anIn.content[i]), "confidentiality") > 0)
           => /\ "confidentialityTerms" \in DOMAIN anOut.analysis
              /\ anOut.analysis["confidentialityTerms"].found

\* C6: the Risk Assessor returns at most 5 findings: the matching high-risk
\* phrases in list order, then the matching medium-risk phrases in list order,
\* cut after the fifth; so no Medium finding precedes a High one, and a Medium
\* finding appears only when fewer than 5 high-risk phrases matched.
C6_RiskFindingsCapped ==
    (AssessedRisk \/ Analyzed) =>
        LET out  == ReturnedRiskFactors
            high == MatchingFindings(anIn.content, highRiskTerms, "High")
            all  == high \o MatchingFindings(anIn.content, mediumRiskTerms, "Medium")
        IN  /\ Len(out) <= 5
            /\ out = SubSeq(all, 1, Min(5, Len(all)))
            /\ \A i \in 1..Len(out) : \A j \in 1..Len(out) :
                  (out[i].severity = "Medium" /\ out[j].severity = "High") => j < i
            /\ (\E i \in 1..Len(out) : out[i].severity = "Medium") => Len(high) < 5

\* C6 witness: a document with at least five high-risk phrases and a
\* medium-risk phrase was assessed, and five High findings came back.
C6_Witness ==
    /\ AssessedRisk
    /\ Len(MatchingFindings(anIn.content, highRiskTerms, "High")) >= 5
    /\ Len(MatchingFindings(anIn.content, mediumRiskTerms, "Medium")) >= 1
    /\ Len(anOut) = 5
    /\ \A i \in 1..5 : anOut[i].severity = "High"

\* C7: the Section Relevance Finder returns at most 5 sentences, and every
\* returned sentence, trimmed, is at least 20 characters long.
C7_SectionsCapped ==
    \A sections \in ReturnedSectionLists :
        /\ Len(sections) <= 5
        /\ \A i \in 1..Len(sections) : StringLength(Trim(sections[i])) >= 20

\* C7 witness: a document with six matching sentences longer than 20 characters
\* was searched, and five came back.
C7_Witness ==
    /\ FoundSections
    /\ Len(SelectSeq(anIn.content,
                     LAMBDA s : /\ StringLength(Trim(s)) > 20
                                /\ relevanceScore(ToLowerCase(s), anIn.keywords, 1) > 0)) >= 6
    /\ Len(anOut) = 5

\* C10: for every category and every number of matched sentences the category
\* score lies in [0,10] (0..1000 hundredths).
C10_CategoryScoreInRange ==
    /\ CalculatedScore => anOut \in 0..1000
    /\ Analyzed => \A k \in DOMAIN anOut.analysis : anOut.analysis[k].score \in 0..1000

\* C10 witness: calculateScore was called for user_rights with so many
\* sentences that the boosted base score passes 10, and returned 10.
C10_Witness ==
    /\ CalculatedScore
    /\ anIn.category = "user_rights"
    /\ Len(anIn.details) * 180 > 1000
    /\ anOut = 1000

(***************************************************************************)
(* Claims about the pipeline (checked under Spec).                         *)
(***************************************************************************)
PipelineScored == scoreResult.success

\* C2: when a request has been scored, the score's riskFactors are the Risk
\* Assessor's findings for the request's document and riskPenalty is
\* min(15, 3 x their number); and when the document holds 'sell your data', the
\* analysis carries the finding 'High Risk: sell your data' and riskPenalty >= 3.
C2_PipelineRiskPenalty ==
    PipelineScored =>
        /\ scoreResult.riskFactors = analysisResult.riskFactors
        /\ scoreResult.riskPenalty = Min(15, 3 * Len(analysisResult.riskFactors))
        /\ contentIncludes(documentContent.sentences, "sell your data")
              => /\ \E i \in 1..Len(analysisResult.riskFactors) :
                       analysisResult.riskFactors[i]
                          = [severity |-> "High", term |-> "sell your data"]
                 /\ scoreResult.riskPenalty >= 3

(***************************************************************************)
(* Claims about the Recommendation Generator (checked under SpecScorer).   *)
(***************************************************************************)
\* Every recommendation, in the order the generator's checks stand in the code.
GenerationOrder ==
    << "Improve transparency about what data is collected",
       "Clearly outline user rights",
       "Reduce third-party data sharing",
       "Strengthen security measures",
       "Review and address identified risk factors",
       "Consider implementing stronger privacy controls (GDPR/CCPA)",
       "Provide clear information about data collection practices",
       "Make terms more user-friendly and transparent",
       "Include clear information about user rights and dispute resolution",
       "Consider more balanced confidentiality terms",
       "Ensure confidentiality scope is clearly defined and reasonable",
       "Major improvements needed",
       "Several areas need improvement",
       "Good foundation with room for improvement" >>

GenerationRank(r) == CHOOSE i \in 1..Len(GenerationOrder) : GenerationOrder[i] = r

\* What the generator pushed for the call the scorer made.
PushedForCall ==
    pushedRecommendations(scIn.analysisResults, scIn.documentType, scIn.riskFactors,
                          scOut.overallScore)

\* C11: the Recommendation Generator returns at most 6 strings, and they are
\* the first 6 of the recommendations that apply, in generation order
\* (category checks, risk check, document-type checks, score band).
C11_RecommendationsCapped ==
    Scored =>
        LET out == scOut.recommendations
        IN  /\ Len(out) <= 6
            /\ Len(out) = Min(6, Len(PushedForCall))
            /\ \A i \in 1..Len(out) : out[i] = PushedForCall[i]
            /\ \A i \in 1..Len(out) : \A j \in 1..Len(out) :
                  i < j => GenerationRank(out[i]) < GenerationRank(out[j])

\* C11 witness: more than 6 recommendations applied to a scored nda, and 6 of
\* them were returned.
C11_Witness ==
    /\ Scored
    /\ Len(PushedForCall) > 6
    /\ Len(scOut.recommendations) = 6

(***************************************************************************)
(* Claims about the handler's failures (checked under Spec).               *)
(***************************************************************************)
\* Step 1 has run for the request.
Extracted == message.received /\ pc \notin {"idle", "extract"}

\* C12 as stated: a message that does not start with http:// or https:// and
\* holds fewer than 100 words, whatever whitespace surrounds it, fails in
\* step 1 with the InvalidInput error, and neither analysis nor scoring runs.
C12_ShortTextRejected ==
    (Extracted /\ ~isUrl(message) /\ wordCountOf(message) < 100) =>
        /\ pc = "done"
        /\ response.sent
        /\ response.details = InvalidInputMessage
        /\ analysisResult = NoResult
        /\ scoreResult = NoResult

\* The request failed in step 1 because the 15 second timer of the URL fetch
\* aborted it.
FetchTimedOut ==
    /\ pc = "done"
    /\ isUrl(message)
    /\ analysisResult = NoResult
    /\ response.details = "This operation was aborted"

\* C13 as stated: a URL fetch that exceeds its 15 second budget fails the
\* request in step 1 and is answered as a timeout, with status 408, not as a
\* fetch failure (400) and not as an unexpected error (500).
C13_FetchTimeoutIs408 ==
    FetchTimedOut =>
        /\ response.status = 408
        /\ response.error = "Request timed out. Please try again with a shorter document."

\* The request was answered with an error payload.
Failed == response.sent /\ response.status # 200

\* C14 as stated: the status of an error response follows the kind of the
\* error: InvalidInput gives a 4xx, a timeout 408, a rate-limited upstream
\* failure 429, and any other unexpected failure a 5xx.
C14_StatusFollowsErrorKind ==
    Failed =>
        /\ response.details = InvalidInputMessage => response.status \in 400..499
        /\ response.details = "This operation was aborted" => response.status = 408
        /\ response.details \in {"rate limit exceeded", "Rate limit reached for requests"}
              => response.status = 429
        /\ response.details = "Internal server error" => response.status \in 500..599

(***************************************************************************)
(* Claims about the order of the stages (checked under Spec).  A stage     *)
(* starts when sendProgress logs it as in_progress.                        *)
(***************************************************************************)
StartedAt(i) == progress[i].status = "in_progress"

\* Stage k was logged as completed before entry j of the log.
CompletedBefore(k, j) ==
    \E i \in 1..(j - 1) : progress[i] = [step |-> k, status |-> "completed"]

\* Stage k was logged as in_progress before entry j of the log.
StartedBefore(k, j) ==
    \E i \in 1..(j - 1) : progress[i] = [step |-> k, status |-> "in_progress"]

\* C15: the stages start in the order 1 (ContentExtraction), 2
\* (DocumentAnalysis), 3 (Scoring), 4 (Storage, only with a user), 5
\* (SummaryGeneration), each after the previous one completed and none
\* skipped; when a stage fails no later stage starts, and the response is an
\* error payload without analysis, score or summary.
C15_StagesInOrder ==
    /\ \A i \in 1..Len(progress) : \A j \in 1..Len(progress) :
          (i < j /\ StartedAt(i) /\ StartedAt(j)) => progress[i].step < progress[j].step
    /\ \A j \in 1..Len(progress) :
          StartedAt(j) =>
             /\ progress[j].step > 1 => CompletedBefore(progress[j].step - 1, j)
             /\ \A k \in 1..(progress[j].step - 1) :
                   IF k = 4 THEN StartedBefore(4, j) = user ELSE StartedBefore(k, j)
             /\ progress[j].step = 4 => user
    /\ \A i \in 1..Len(progress) :
          progress[i].status = "error" =>
             /\ i = Len(progress)
             /\ pc = "done"
             /\ response.sent
             /\ response.status # 200
             /\ DOMAIN response \cap {"toolResults", "summary"} = {}

\* C15 witness: with a user, all five stages started in turn and the last one
\* failed; the request was answered with an error payload.
C15_Witness ==
    /\ user
    /\ Len(progress) = 10
    /\ \A k \in 1..5 : progress[2 * k - 1] = [step |-> k, status |-> "in_progress"]
    /\ progress[10] = [step |-> 5, status |-> "error"]
    /\ response.sent
    /\ response.status # 200

(***************************************************************************)
(* Claims about the storage stage (checked under Spec).                    *)
(***************************************************************************)
StorageFailed == storage \in {"chunkingFailed", "embeddingFailed", "insertError"}

Succeeded == response.sent /\ response.status = 200

\* C16: when chunking, an embedding call or the insert fails in step 4, the
\* request still goes on to step 5; when that succeeds the success response
\* carries the analysis and the score of the document, the same as after a
\* successful storage; and an error response, if any, comes from step 5.
C16_StorageBestEffort ==
    StorageFailed =>
        /\ \/ pc = "summarize"
           \/ pc = "done" /\ StartedBefore(5, Len(progress) + 1)
        /\ Succeeded =>
              /\ response.toolResults.termsAnalyzer
                    = analyzerExecute(documentContent.sentences, docType)
              /\ response.toolResults.privacyPolicyScorer
                    = scorerExecute(response.toolResults.termsAnalyzer.analysis,
                                    docType, <<>>)
        /\ Failed => response.details \in {e.message : e \in SummaryErrors}

\* C16 witness: an embedding call failed, and the request was answered with
\* the success response.
C16_Witness ==
    /\ storage = "embeddingFailed"
    /\ pc = "done"
    /\ Succeeded

(***************************************************************************)
(* Claims about the request deadline (checked under Spec).                 *)
(***************************************************************************)
\* C17 as stated, for the 90 second deadline of POST /api/chat: when the timer
\* fires while the content fetch or the summary generation is in flight, that
\* call is cancelled and the request ends with the timeout error (status 408);
\* it does not go on to a later step.
C17_DeadlineCancels ==
    /\ timedOutAt = "extract" =>
          \/ pc = "extract"
          \/ pc = "done" /\ response.status = 408 /\ analysisResult = NoResult
    /\ timedOutAt = "summarize" =>
          \/ pc = "summarize"
          \/ pc = "done" /\ response.status = 408

\* The stage sendProgress logged as failed (the last line of the log).
FailedStage == progress[Len(progress)].step

\* C18 as stated: the error payload names the stage that failed: a failure in
\* stage k is reported with stage indicator k.
C18_ErrorNamesStage ==
    Failed =>
        /\ progress[Len(progress)].status = "error"
        /\ response.progressStep = FailedStage

(***************************************************************************)
(* Claims about the weight table and the category score (part two).        *)
(***************************************************************************)
\* C19 as stated: for both document types 'nda' and 'contract' the weights
\* (emitted as the breakdown's maxScore) are security 35, data sharing 30,
\* user rights 25 and data collection 10.
C19_NdaContractWeights ==
    (Scored /\ scIn.documentType \in {"nda", "contract"}) =>
        /\ scOut.breakdown["security"].maxScore = 35
        /\ scOut.breakdown["dataSharing"].maxScore = 30
        /\ scOut.breakdown["userRights"].maxScore = 25
        /\ scOut.breakdown["dataCollection"].maxScore = 10

\* The rule of section 4.3 for a category, applied to
\* base = min(matchCount x 1.5, 10), in hundredths.
SectionRule(matchCount, category) ==
    LET base == Min(matchCount * 150, 1000)
    IN  CASE category = "data_collection" -> Min((base * 8) \div 10, 800)
          [] category = "user_rights"     -> Min((base * 12) \div 10, 1000)
          [] category = "data_sharing"    -> Max(base, 300)
          [] category = "security"        -> Min((base * 11) \div 10, 1000)
          [] category = "contract_terms"  -> Min(base, 1000)
          [] category = "confidentiality" -> Min((base * 11) \div 10, 1000)

\* C20 as stated: for every category and every number of matched sentences in
\* 0..5 the category score is the section 4.3 rule applied to
\* base = min(matchCount x 1.5, 10); the data_sharing score of every analysed
\* document is therefore at least 3, and found is true iff matchCount > 0.
C20_CategoryScoreRule ==
    /\ (CalculatedScore /\ Len(anIn.details) <= 5 /\ anIn.category # "other")
          => anOut = SectionRule(Len(anIn.details), anIn.category)
    /\ Analyzed =>
          /\ anOut.analysis["dataSharing"].score >= 300
          /\ \A k \in DOMAIN anOut.analysis :
                anOut.analysis[k].found = (Len(anOut.analysis[k].details) > 0)

(***************************************************************************)
(* Claims about scores computed from analyzer output (checked under        *)
(* SpecScorer).                                                            *)
(***************************************************************************)
\* The sentences the scorer's input holds for a category (none if absent).
InputDetails(k) ==
    IF k \in DOMAIN scIn.analysisResults THEN scIn.analysisResults[k].details ELSE <<>>

\* The scorer was called on an analysis object the analyzer can return.
ScoredFromAnalyzer ==
    /\ Scored
    /\ scIn.documentType \in EnumDocumentTypes
    /\ \A k \in BaseCategories : Len(InputDetails(k)) <= 5
    /\ scIn.analysisResults
          = analysisOf(InputDetails("dataCollection"), InputDetails("userRights"),
                       InputDetails("dataSharing"), InputDetails("security"),
                       InputDetails("contractTerms"), InputDetails("confidentialityTerms"))

\* A category of the input was found by the analyzer.
InputFound(k) == Len(InputDetails(k)) > 0

\* C21 as stated: for a 'contract' document taken through analysis and
\* scoring, the contract-terms contribution is clamp(score x 1.5, [5,15]) when
\* contract terms were found and 8 when none were found; for an 'nda', the
\* confidentiality contribution is clamp(score x 2, [5,20]) when found and 10
\* when not.  (Contributions in 1/3000 points, scores in hundredths.)
C21_OptionalContribution ==
    /\ (ScoredFromAnalyzer /\ scIn.documentType = "contract") =>
          contractScore(scIn.analysisResults, scIn.documentType)
             = IF InputFound("contractTerms")
               THEN Min(15 * 3000, Max(5 * 3000,
                        45 * calculateScore(Len(InputDetails("contractTerms")), "contract_terms")))
               ELSE 8 * 3000
    /\ (ScoredFromAnalyzer /\ scIn.documentType = "nda") =>
          confidentialityScore(scIn.analysisResults, scIn.documentType)
             = IF InputFound("confidentialityTerms")
               THEN Min(20 * 3000, Max(5 * 3000,
                        60 * calculateScore(Len(InputDetails("confidentialityTerms")), "confidentiality")))
               ELSE 10 * 3000

\* The elements of a returned list.
Range(s) == { s[i] : i \in 1..Len(s) }

\* C22 as stated: for documentType 'nda', whatever the findings, risk factors
\* and overall score, the returned recommendations contain the
\* confidentiality-scope reminder.
C22_NdaReminderReturned ==
    (Scored /\ scIn.documentType = "nda") =>
        "Ensure confidentiality scope is clearly defined and reasonable"
            \in Range(scOut.recommendations)

\* The rating and color the inclusive lower bounds give a score.
BandOf(s) ==
    IF s >= 80 THEN <<"Excellent", "green">>
    ELSE IF s >= 65 THEN <<"Good", "blue">>
    ELSE IF s >= 50 THEN <<"Fair", "yellow">>
    ELSE IF s >= 35 THEN <<"Poor", "orange">>
    ELSE <<"Very Poor", "red">>

\* C23: for every overallScore in 0..100 the scorer emits exactly the rating
\* and paired color of the band the score falls in by inclusive lower bounds
\* (80, 65, 50, 35), and no lower score is rated better than the emitted
\* rating.
C23_RatingBands ==
    Scored =>
        /\ <<scOut.rating, scOut.color>> = BandOf(scOut.overallScore)
        /\ \A s \in 0..scOut.overallScore :
              RatingRank(ratingOf(s)) <= RatingRank(scOut.rating)

\* C23 witness: a call that scored exactly 65, the lower bound of 'Good'.
C23_Witness ==
    /\ Scored
    /\ scOut.overallScore = 65
    /\ scOut.rating = "Good"
    /\ scOut.color = "blue"

\* C28: for documentType 'privacy', every score computed from analyzer output
\* (at most 5 matched sentences per category) has overallScore <= 79, so the
\* rating 'Excellent' is never emitted for a privacy document.
C28_PrivacyNeverExcellent ==
    (ScoredFromAnalyzer /\ scIn.documentType = "privacy") =>
        /\ scOut.overallScore <= 79
        /\ scOut.rating # "Excellent"

\* C28 witness: a privacy analysis that reaches the maximum, 79.
C28_Witness ==
    /\ ScoredFromAnalyzer
    /\ scIn.documentType = "privacy"
    /\ Len(InputDetails("userRights")) = 5
    /\ scOut.overallScore = 79
    /\ scOut.rating = "Good"

\* C29: for every document the analyzer's dataCollection.score is at most 6
\* (600 hundredths), hence below 7, and every score result computed from
\* analyzer output has the data-collection transparency recommendation as its
\* first recommendation.
C29_TransparencyAlwaysFirst ==
    ScoredFromAnalyzer =>
        /\ scIn.analysisResults["dataCollection"].score <= 600
        /\ Len(scOut.recommendations) > 0
        /\ scOut.recommendations[1] = "Improve transparency about what data is collected"

\* C29 witness: five data-collection sentences give the maximum 6, more than
\* six recommendations were pushed, and the transparency one is returned first.
C29_Witness ==
    /\ ScoredFromAnalyzer
    /\ Len(InputDetails("dataCollection")) = 5
    /\ scIn.analysisResults["dataCollection"].score = 600
    /\ Len(PushedForCall) > 6
    /\ scOut.recommendations[1] = "Improve transparency about what data is collected"

(***************************************************************************)
(* Document-type detection on its own: the auto-detection of               *)
(* urlContentFetcherTool and of directTextAnalyzerTool applied to a        *)
(* content and a declared type of the enum.                                *)
(***************************************************************************)
SniffedDocuments ==
    SeqsUpTo(SniffSentences \cup {" This agreement imposes perpetual confidentiality",
                                  " The weather was pleasant all week",
                                  " Our privacy policy covers cookie tracking"},
             MaxShortSentences)

InitSniffer == ToolsIdle /\ PipelineIdle /\ StorageIdle

SniffFetched ==
    /\ anIn = NoCall
    /\ \E content \in SniffedDocuments :
       \E documentType \in EnumDocumentTypes :
          /\ anIn' = [called |-> TRUE, op |-> "urlContentFetcher",
                      content |-> content, documentType |-> documentType]
          /\ anOut' = sniffFetched(content, documentType)
    /\ UNCHANGED <<scorerVars, pipelineVars, storageVars>>

SniffPasted ==
    /\ anIn = NoCall
    /\ \E content \in SniffedDocuments :
       \E documentType \in EnumDocumentTypes :
          /\ anIn' = [called |-> TRUE, op |-> "directTextAnalyzer",
                      content |-> content, documentType |-> documentType]
          /\ anOut' = sniffPasted(content, documentType)
    /\ UNCHANGED <<scorerVars, pipelineVars, storageVars>>

NextSniffer == SniffFetched \/ SniffPasted

SpecSniffer == InitSniffer /\ [][NextSniffer]_vars

\* A document type was detected by either tool.
Sniffed == anIn.called /\ anIn.op \in {"urlContentFetcher", "directTextAnalyzer"}

\* The document types whose detection rule matches the content, for each tool.
MatchingRules(op, content) ==
    IF op = "urlContentFetcher"
    THEN (IF contentMentions(content, "privacy") THEN {"privacy"} ELSE {})
         \cup (IF contentMentions(content, "cookie") THEN {"cookies"} ELSE {})
         \cup (IF contentMentions(content, "non-disclosure") THEN {"nda"} ELSE {})
         \cup (IF contentMentions(content, "end user license") THEN {"eula"} ELSE {})
    ELSE (IF \/ contentMentions(content, "privacy policy")
             \/ contentMentions(content, "personal data")
             \/ contentMentions(content, "data collection") THEN {"privacy"} ELSE {})
         \cup (IF contentMentions(content, "cookie") /\ contentMentions(content, "tracking")
               THEN {"cookies"} ELSE {})
         \cup (IF \/ contentMentions(content, "non-disclosure")
                  \/ contentMentions(content, "confidential") THEN {"nda"} ELSE {})
         \cup (IF \/ contentMentions(content, "end user license")
                  \/ contentMentions(content, "software license") THEN {"eula"} ELSE {})
         \cup (IF \/ contentMentions(content, "contract")
                  \/ contentMentions(content, "agreement") THEN {"contract"} ELSE {})

\* C25 as stated: detection changes the type only when the declared type is
\* 'terms', and when several markers occur the result is that of the first
\* matching rule in the order privacy, non-disclosure (nda), end user license
\* (eula), cookie (cookies); the pasted-text tool's contract rule comes last.
C25_SniffOrder ==
    Sniffed =>
        /\ anIn.documentType # "terms" => anOut = anIn.documentType
        /\ anIn.documentType = "terms" =>
              LET matching == MatchingRules(anIn.op, anIn.content)
              IN  anOut = (IF "privacy" \in matching THEN "privacy"
                           ELSE IF "nda" \in matching THEN "nda"
                           ELSE IF "eula" \in matching THEN "eula"
                           ELSE IF "cookies" \in matching THEN "cookies"
                           ELSE IF "contract" \in matching THEN "contract"
                           ELSE "terms")

\* The scored sentences of a findRelevantSections call, in document order
\* (score 0 sentences are not among them).
ScoredSentences ==
    relevantItems(SelectSeq(anIn.content, keepsSentence), anIn.keywords, 1)

\* The place of the j-th scored sentence in the ranking: behind every
\* sentence of higher score and every earlier sentence of equal score.
RankOf(items, j) ==
    1 + Cardinality({ k \in 1..Len(items) :
                        \/ items[k].score > items[j].score
                        \/ (items[k].score = items[j].score /\ k < j) })

\* C26: the returned sections are in non-increasing relevance-score order with
\* equal-score sentences in document order, none of them has score 0, and a
\* matching sentence is left out only when the 5 sentences ranking before it
\* are returned: the r-th returned section is the sentence of rank r, for
\* every rank up to 5.
C26_SectionsRanked ==
    FoundSections =>
        LET items == ScoredSentences
        IN  /\ Len(anOut) = Min(5, Len(items))
            /\ \A j \in 1..Len(items) :
                  /\ items[j].score > 0
                  /\ RankOf(items, j) <= 5 => anOut[RankOf(items, j)] = items[j].sentence

\* C26 witness: six matching sentences; the first has the lowest score and is
\* returned last, behind later sentences of higher score that tie with each
\* other; the other sentence of the lowest score is left out.
C26_Witness ==
    /\ FoundSections
    /\ Len(ScoredSentences) = 6
    /\ Len(anOut) = 5
    /\ ScoredSentences[1].score < ScoredSentences[2].score
    /\ ScoredSentences[2].score = ScoredSentences[3].score
    /\ ScoredSentences[2].sentence # ScoredSentences[3].sentence
    /\ anOut[1] = ScoredSentences[2].sentence
    /\ anOut[2] = ScoredSentences[3].sentence
    /\ anOut[5] = ScoredSentences[1].sentence
    /\ RankOf(ScoredSentences, 4) = 6

(***************************************************************************)
(* Chunk storage: the batched embedding loop and the insert, the same code *)
(* in STEP 4 of POST /api/chat and in POST /api/upload.  A chunk is its    *)
(* position in chunks (0-based); a row of document_chunks is               *)
(* [content, chunk_index].  The async callbacks of batch.map run up to     *)
(* their await at once, so a batch's embed() calls are all issued in the   *)
(* step that builds batchPromises; each call then returns or throws on its *)
(* own.  Promise.all resolves when the last call of the batch has          *)
(* returned, and rejects as soon as one call throws; the calls of the      *)
(* batch still pending at that time settle later, unobserved.              *)
(***************************************************************************)
\* const batchSize = 5
batchSize == 5

\* Most chunks the splitter returns for a document.
MaxChunks == 7

StorageRoutes == {"chat", "upload"}

\* Mutant of batchOf: the chunks are not cut into batches.
batchOf_unbatched(i, n) == i .. (n - 1)

\* chunks.slice(i, i + batchSize), as positions in chunks
batchOf(i, n) == i .. (Min(i + batchSize, n) - 1)

\* Mutant of chunkIndexOf: the index within the batch.
chunkIndexOf_batchLocal(i, batchIndex) == batchIndex

\* chunk_index: i + batchIndex
chunkIndexOf(i, batchIndex) == i + batchIndex

\* batchResults: one row per chunk of the batch, in the order of the batch
batchResults(i, n) ==
    [k \in 1..Cardinality(batchOf(i, n)) |->
        [content |-> i + k - 1, chunk_index |-> chunkIndexOf(i, k - 1)]]

InitStorage == ToolsIdle /\ PipelineIdle /\ StorageIdle

\* splitText returns; with chunks, docId is generated and the first batch of
\* embed() calls is issued
SplitText ==
    /\ stPc = "idle"
    /\ \E r \in StorageRoutes :
       \E n \in 0..MaxChunks :
          /\ route' = r
          /\ chunks' = n
          /\ IF n = 0
             THEN /\ stPc' = "noChunks"
                  /\ inFlight' = {}
             ELSE /\ stPc' = "embedding"
                  /\ inFlight' = batchOf(0, n)
    /\ UNCHANGED <<batchStart, embedded, failed, documentChunks, rows,
                   scorerVars, analyzerVars, pipelineVars>>

\* An embed() call returns.  If it is the last of its batch, Promise.all
\* resolves: the batch's rows are pushed, and the loop issues the next batch
\* or, after the last one, the insert.
EmbedReturns ==
    /\ \E c \in inFlight :
          /\ embedded' = embedded \cup {c}
          /\ IF stPc = "embedding" /\ batchOf(batchStart, chunks) \subseteq embedded'
             THEN /\ documentChunks' = documentChunks \o batchResults(batchStart, chunks)
                  /\ batchStart' = batchStart + batchSize
                  /\ IF batchStart' < chunks
                     THEN /\ inFlight' = batchOf(batchStart', chunks)
                          /\ stPc' = stPc
                     ELSE /\ inFlight' = {}
                          /\ stPc' = "inserting"
             ELSE /\ inFlight' = inFlight \ {c}
                  /\ UNCHANGED <<stPc, batchStart, documentChunks>>
    /\ UNCHANGED <<route, chunks, failed, rows, scorerVars, analyzerVars, pipelineVars>>

\* An embed() call throws: Promise.all rejects and the error leaves the loop
\* (the chat route's catch of STEP 4, the upload route's outer catch).
EmbedThrows ==
    /\ \E c \in inFlight :
          /\ inFlight' = inFlight \ {c}
          /\ failed' = failed \cup {c}
    /\ stPc' = IF stPc = "embedding" THEN "embeddingFailed" ELSE stPc
    /\ UNCHANGED <<route, chunks, batchStart, embedded, documentChunks, rows,
                   scorerVars, analyzerVars, pipelineVars>>

\* supabase.from('document_chunks').insert(documentChunks) returns, with or
\* without insertError
InsertReturns ==
    /\ stPc = "inserting"
    /\ \E insertError \in BOOLEAN :
          IF insertError
          THEN /\ stPc' = "insertError"
               /\ rows' = rows
          ELSE /\ stPc' = "stored"
               /\ rows' = documentChunks
    /\ UNCHANGED <<route, chunks, batchStart, inFlight, embedded, failed,
                   documentChunks, scorerVars, analyzerVars, pipelineVars>>

NextStorage == SplitText \/ EmbedReturns \/ EmbedThrows \/ InsertReturns

SpecStorage == InitStorage /\ [][NextStorage]_vars

\* The embed() calls issued so far.
Issued == inFlight \cup embedded \cup failed

\* C24: during storage at most 5 embedding calls are in flight at any time,
\* and no embedding call of a batch is issued before every call of the
\* previous batches has completed.
C24_BatchedEmbedding ==
    /\ Cardinality(inFlight) <= 5
    /\ \A c \in Issued :
          \A p \in 0..(chunks - 1) :
             (p \div 5 < c \div 5) => p \in embedded \cup failed

\* C24 witness: the calls of the second batch are pending, the five of the
\* first batch have returned.
C24_Witness ==
    /\ stPc = "embedding"
    /\ chunks > 5
    /\ inFlight = 5 .. (chunks - 1)
    /\ embedded = 0 .. 4

\* C30: if any embedding call fails, no chunk of the document is inserted,
\* the chunks of batches already completed included; when all succeed, the
\* inserted rows carry chunk_index exactly 0..n-1 in chunk order.
C30_AllOrNothing ==
    /\ failed # {} => rows = <<>>
    /\ rows # <<>> =>
          /\ embedded = 0 .. (chunks - 1)
          /\ rows = [j \in 1..chunks |-> [content |-> j - 1, chunk_index |-> j - 1]]
    /\ stPc = "stored" => Len(rows) = chunks

\* C30 witness: the first batch was embedded and pushed, a call of the second
\* batch threw, every call has settled, and nothing was inserted.
C30_Witness ==
    /\ stPc = "embeddingFailed"
    /\ Len(documentChunks) = 5
    /\ failed # {}
    /\ inFlight = {}
    /\ rows = <<>>

\* C27 as stated (checked under Spec): a success response carries a docId and
\* the message 'Document stored for future retrieval' only if every chunk was
\* embedded and the insert completed without error.
C27_DocIdOnlyWhenStored ==
    (Succeeded /\ (response.docId \/ response.storedMessage)) => storage = "stored"

=============================================================================
